---- MODULE Spec2Model ----
(***************************************************************************)
(* Model of the DSP production calculator (src/main.py): the recipe index  *)
(* (build_recipe_map), the merge of requirement maps (merge_requirements)  *)
(* and the recursive requirement resolver (get_requirements).              *)
(*                                                                         *)
(* Rates and amounts are Python floats.  They are modelled as IEEE-754     *)
(* binary64 values with round-to-nearest-even: a value is                  *)
(* (-1)^s * m * 2^e with m a natural number of at most Prec bits, kept as a *)
(* little-endian sequence of limbs because a 53-bit significand does not   *)
(* fit a machine integer of the checker.  Exponent overflow, infinities and *)
(* NaN never arise from the bounded inputs used here and are not modelled. *)
(***************************************************************************)
EXTENDS Integers, Sequences, FiniteSets, TLC

Max(a, b) == IF a >= b THEN a ELSE b
Min(a, b) == IF a <= b THEN a ELSE b

\* The element of a singleton.  The({e(v) : v \in {a}}) is e(a) with a
\* evaluated once, however often e uses v.
The(S) == CHOOSE r \in S : TRUE

(***************************************************************************)
(* Natural numbers of arbitrary size: little-endian limbs in 0..LimbBase-1,    *)
(* no leading zero limb, zero is << >>.                                    *)
(***************************************************************************)
LimbBits == 15
LimbBase == 2^LimbBits

RECURSIVE BNorm(_)
BNorm(a0) ==
  The({ IF a = <<>> THEN a
        ELSE IF a[Len(a)] = 0 THEN BNorm(SubSeq(a, 1, Len(a) - 1)) ELSE a :
        a \in {a0} })

BLimb(a, i) == IF i <= Len(a) THEN a[i] ELSE 0

RECURSIVE BFromNat(_)
BFromNat(n) == IF n = 0 THEN <<>> ELSE <<n % LimbBase>> \o BFromNat(n \div LimbBase)

RECURSIVE BCmpR(_, _, _)
BCmpR(a, b, i0) ==
  The({ IF i = 0 THEN 0
        ELSE IF a[i] > b[i] THEN 1
        ELSE IF a[i] < b[i] THEN -1
        ELSE BCmpR(a, b, i - 1) :
        i \in {i0} })

\* -1, 0, 1 as a < b, a = b, a > b
BCmp(a0, b0) ==
  The({ IF Len(a) > Len(b) THEN 1
        ELSE IF Len(a) < Len(b) THEN -1
        ELSE BCmpR(a, b, Len(a)) :
        a \in {a0}, b \in {b0} })

RECURSIVE BAddR(_, _, _, _, _)
BAddR(a, b, i0, c0, acc0) ==
  The({ IF i > Max(Len(a), Len(b))
        THEN (IF c = 0 THEN acc ELSE Append(acc, c))
        ELSE BAddR(a, b, i + 1,
                   (BLimb(a, i) + BLimb(b, i) + c) \div LimbBase,
                   Append(acc, (BLimb(a, i) + BLimb(b, i) + c) % LimbBase)) :
        i \in {i0}, c \in {c0}, acc \in {acc0} })

BAdd(a0, b0) == The({ BAddR(a, b, 1, 0, <<>>) : a \in {a0}, b \in {b0} })

RECURSIVE BSubR(_, _, _, _, _)
BSubR(a, b, i0, c0, acc0) ==
  The({ IF i > Len(a) THEN acc
        ELSE IF a[i] - BLimb(b, i) - c < 0
        THEN BSubR(a, b, i + 1, 1,
                   Append(acc, a[i] - BLimb(b, i) - c + LimbBase))
        ELSE BSubR(a, b, i + 1, 0, Append(acc, a[i] - BLimb(b, i) - c)) :
        i \in {i0}, c \in {c0}, acc \in {acc0} })

\* a - b for a >= b
BSub(a0, b0) ==
  The({ BNorm(BSubR(a, b, 1, 0, <<>>)) : a \in {a0}, b \in {b0} })

RECURSIVE BMulSmallR(_, _, _, _, _)
BMulSmallR(a, k, i0, c0, acc0) ==
  The({ IF i > Len(a)
        THEN (IF c = 0 THEN acc ELSE Append(acc, c))
        ELSE BMulSmallR(a, k, i + 1, (a[i] * k + c) \div LimbBase,
                        Append(acc, (a[i] * k + c) % LimbBase)) :
        i \in {i0}, c \in {c0}, acc \in {acc0} })

\* a * k for 0 <= k < LimbBase
BMulSmall(a0, k0) ==
  The({ IF k = 0 THEN <<>> ELSE BMulSmallR(a, k, 1, 0, <<>>) :
        a \in {a0}, k \in {k0} })

BShlLimbs(a0, n0) ==
  The({ IF a = <<>> THEN a ELSE [i \in 1..n |-> 0] \o a :
        a \in {a0}, n \in {n0} })

RECURSIVE BMulR(_, _, _, _)
BMulR(a, b, j0, acc0) ==
  The({ IF j > Len(b) THEN acc
        ELSE BMulR(a, b, j + 1,
                   BAdd(acc, BShlLimbs(BMulSmall(a, b[j]), j - 1))) :
        j \in {j0}, acc \in {acc0} })

BMul(a0, b0) == The({ BMulR(a, b, 1, <<>>) : a \in {a0}, b \in {b0} })

RECURSIVE SmallBitLen(_)
SmallBitLen(x0) ==
  The({ IF x = 0 THEN 0 ELSE 1 + SmallBitLen(x \div 2) : x \in {x0} })

BBitLen(a0) ==
  The({ IF a = <<>> THEN 0
        ELSE LimbBits * (Len(a) - 1) + SmallBitLen(a[Len(a)]) :
        a \in {a0} })

BOdd(a0) == The({ a # <<>> /\ a[1] % 2 = 1 : a \in {a0} })

\* a * 2^n
BShl(a0, n0) ==
  The({ BShlLimbs(BMulSmall(a, 2^(n % LimbBits)), n \div LimbBits) :
        a \in {a0}, n \in {n0} })

RECURSIVE BDivSmallR(_, _, _, _, _)
BDivSmallR(a, k, i0, r0, acc0) ==
  The({ IF i = 0 THEN acc
        ELSE BDivSmallR(a, k, i - 1, (r * LimbBase + a[i]) % k,
                        <<(r * LimbBase + a[i]) \div k>> \o acc) :
        i \in {i0}, r \in {r0}, acc \in {acc0} })

\* floor(a / k) for 0 < k <= LimbBase
BDivSmall(a0, k0) ==
  The({ BNorm(BDivSmallR(a, k, Len(a), 0, <<>>)) : a \in {a0}, k \in {k0} })

\* floor(a / 2^n)
BShr(a0, n0) ==
  The({ IF n \div LimbBits >= Len(a) THEN <<>>
        ELSE BDivSmall(SubSeq(a, n \div LimbBits + 1, Len(a)),
                       2^(n % LimbBits)) :
        a \in {a0}, n \in {n0} })

\* a mod 2^n
BLowBits(a0, n0) ==
  The({ BSub(a, BShl(BShr(a, n), n)) : a \in {a0}, n \in {n0} })

RECURSIVE BTrailingZeros(_)
BTrailingZeros(a0) ==
  The({ IF a = <<>> THEN 0
        ELSE IF a[1] = 0 THEN LimbBits + BTrailingZeros(Tail(a))
        ELSE IF a[1] % 2 = 0 THEN 1 + BTrailingZeros(BDivSmall(a, 2))
        ELSE 0 :
        a \in {a0} })

RECURSIVE QDigit(_, _, _, _)
\* the largest d in lo..hi-1 with b * d <= r, given b * lo <= r < b * hi
QDigit(r, b, lo0, hi0) ==
  The({ IF hi - lo = 1 THEN lo
        ELSE IF BCmp(BMulSmall(b, (lo + hi) \div 2), r) <= 0
        THEN QDigit(r, b, (lo + hi) \div 2, hi)
        ELSE QDigit(r, b, lo, (lo + hi) \div 2) :
        lo \in {lo0}, hi \in {hi0} })

RECURSIVE BDivModR(_, _, _, _, _)

\* the digit d found: the quotient gains d, the remainder loses b * d
BDivSub(a, b, i, q, r2, d0) ==
  The({ BDivModR(a, b, i - 1, <<d>> \o q, BSub(r2, BMulSmall(b, d))) :
        d \in {d0} })

\* r2: the remainder so far with the next limb of a brought down
BDivDigit(a, b, i, q, r20) ==
  The({ BDivSub(a, b, i, q, r2, QDigit(r2, b, 0, LimbBase)) : r2 \in {r20} })

BDivModR(a, b, i0, q0, r0) ==
  The({ IF i = 0 THEN [q |-> BNorm(q), r |-> r]
        ELSE BDivDigit(a, b, i, q, BNorm(<<a[i]>> \o r)) :
        i \in {i0}, q \in {q0}, r \in {r0} })

\* quotient and remainder of a by b > 0 (long division, one limb at a time)
BDivMod(a0, b0) ==
  The({ BDivModR(a, b, Len(a), <<>>, <<>>) : a \in {a0}, b \in {b0} })

(***************************************************************************)
(* Dyadic numbers (-1)^s * m * 2^e, exact, in canonical form: m odd, or    *)
(* m = 0 with s = 0 and e = 0.  Equal values have equal representations.   *)
(***************************************************************************)
CanonShift(s, m, e, z0) ==
  The({ [s |-> s, m |-> BShr(m, z), e |-> e + z] : z \in {z0} })

Canon(s0, m0, e0) ==
  The({ IF m = <<>> THEN [s |-> 0, m |-> <<>>, e |-> 0]
        ELSE CanonShift(s, m, e, BTrailingZeros(m)) :
        s \in {s0}, m \in {m0}, e \in {e0} })

Zero == Canon(0, <<>>, 0)

\* the float of a small integer (exact)
F(n) == IF n < 0 THEN Canon(1, BFromNat(-n), 0) ELSE Canon(0, BFromNat(n), 0)

DNeg(x0) ==
  The({ IF x.m = <<>> THEN x ELSE [x EXCEPT !.s = 1 - x.s] : x \in {x0} })

DAbs(x) == [x EXCEPT !.s = 0]

DIsZero(x) == x.m = <<>>

DScale(x0, k) ==
  The({ IF x.m = <<>> THEN x ELSE [x EXCEPT !.e = x.e + k] : x \in {x0} })

\* the sum of (-1)^sx * mx * 2^e and (-1)^sy * my * 2^e
DAddAligned(sx, mx0, sy, my0, e) ==
  The({ IF sx = sy THEN Canon(sx, BAdd(mx, my), e)
        ELSE IF BCmp(mx, my) >= 0 THEN Canon(sx, BSub(mx, my), e)
        ELSE Canon(sy, BSub(my, mx), e) :
        mx \in {mx0}, my \in {my0} })

\* exact sum
DAdd(x0, y0) ==
  The({ DAddAligned(x.s, BShl(x.m, x.e - Min(x.e, y.e)),
                    y.s, BShl(y.m, y.e - Min(x.e, y.e)), Min(x.e, y.e)) :
        x \in {x0}, y \in {y0} })

DSub(x, y) == DAdd(x, DNeg(y))

\* exact product
DMul(x0, y0) ==
  The({ Canon((x.s + y.s) % 2, BMul(x.m, y.m), x.e + y.e) :
        x \in {x0}, y \in {y0} })

DIsNonPositive(d0) == The({ d.m = <<>> \/ d.s = 1 : d \in {d0} })

\* x <= y, exactly
DLeq(x, y) == DIsNonPositive(DSub(x, y))

(***************************************************************************)
(* binary64: rounding to Prec significant bits, to nearest, ties to even.  *)
(* sticky says that the exact value is strictly above m * 2^e in magnitude *)
(* (a nonzero remainder of a division).                                    *)
(***************************************************************************)
Prec == 53

\* kept: the Prec leading bits; c: the dropped bits against one half
RoundKept(s, e, sticky, kept0, c0) ==
  The({ Canon(s,
              IF c > 0 \/ (c = 0 /\ (sticky \/ BOdd(kept)))
              THEN BAdd(kept, <<1>>) ELSE kept,
              e) :
        kept \in {kept0}, c \in {c0} })

\* drop the d low bits of m
RoundDrop(s, m, e, sticky, d0) ==
  The({ RoundKept(s, e + d, sticky, BShr(m, d),
                  BCmp(BLowBits(m, d), BShl(<<1>>, d - 1))) :
        d \in {d0} })

Round(s0, m0, e0, sticky0) ==
  The({ IF BBitLen(m) <= Prec THEN Canon(s, m, e)
        ELSE RoundDrop(s, m, e, sticky, BBitLen(m) - Prec) :
        s \in {s0}, m \in {m0}, e \in {e0}, sticky \in {sticky0} })

RoundD(d0) == The({ Round(d.s, d.m, d.e, FALSE) : d \in {d0} })

\* float + float
FAdd(x, y) == RoundD(DAdd(x, y))

\* float * float
FMul(x0, y0) ==
  The({ Round((x.s + y.s) % 2, BMul(x.m, y.m), x.e + y.e, FALSE) :
        x \in {x0}, y \in {y0} })

FDivRound(s, qr0, e) ==
  The({ Round(s, qr.q, e, qr.r # <<>>) : qr \in {qr0} })

\* the quotient of x.m * 2^k by y.m has Prec + 2 or Prec + 3 bits
FDivShift(x, y, k0) ==
  The({ FDivRound((x.s + y.s) % 2, BDivMod(BShl(x.m, k), y.m),
                  x.e - y.e - k) :
        k \in {k0} })

\* float / float for y # 0 (Python raises ZeroDivisionError for y = 0)
FDiv(x0, y0) ==
  The({ IF x.m = <<>> THEN Zero
        ELSE FDivShift(x, y, Prec + 2 + BBitLen(y.m) - BBitLen(x.m)) :
        x \in {x0}, y \in {y0} })

(***************************************************************************)
(* Data (src/main.py: MaterialWithAmount, Recipe, UserInput, Multipliers,  *)
(* RequirementForMaterial).  A requirement map (a Python dict) is a        *)
(* sequence of [k, ref] in insertion order; ref is the address in the heap *)
(* of the RequirementForMaterial object the key is bound to, so that two   *)
(* maps can hold the same object.                                          *)
(***************************************************************************)
MaterialWithAmount(name, amount) == [name |-> name, amount |-> amount]

\* MaterialWithAmount(): the dataclass defaults
\* a variant of the empty building with a placeholder name
UnnamedMaterial == MaterialWithAmount("None", Zero)

EmptyMaterial == MaterialWithAmount("", Zero)

MaterialMul(mat0, multiplier) ==
  The({ MaterialWithAmount(mat.name, FMul(mat.amount, multiplier)) :
        mat \in {mat0} })

\* divisor # 0; the callers raise ZeroDivisionError before a zero divisor
MaterialTrueDiv(mat0, divisor) ==
  The({ MaterialWithAmount(mat.name, FDiv(mat.amount, divisor)) :
        mat \in {mat0} })

RequirementForMaterial(rate, building, input) ==
  [rate |-> rate, building |-> building, input |-> input]

\* the outcome of an evaluation: a value, or an exception raised
Ok(v) == [err |-> "", val |-> v]
Raised(e) == [err |-> e, val |-> e]
IsRaised(x) == x.err # ""

MultiplierVariant(table, variant) ==
  IF variant \in DOMAIN table THEN Ok(table[variant]) ELSE Raised("KeyError")

\* a variant that takes a research recipe's multiplier to be 1
MultiplierIgnoringLabHeight(ui, mults, facility) ==
  IF facility = "Assembler"
    THEN MultiplierVariant(mults.assembler, ui.assembler)
  ELSE IF facility = "Smelting Facility"
    THEN MultiplierVariant(mults.smelting_facility, ui.smelting_facility)
  ELSE IF facility = "Chemical Facility"
    THEN MultiplierVariant(mults.chemical_facility, ui.chemical_facility)
  ELSE IF facility = "Research Facility" \/ facility = "Refining Facility"
    THEN Ok(F(1))
  ELSE Raised("ValueError")

multiplier_for_facility(ui, mults, facility) ==
  IF facility = "Assembler"
    THEN MultiplierVariant(mults.assembler, ui.assembler)
  ELSE IF facility = "Smelting Facility"
    THEN MultiplierVariant(mults.smelting_facility, ui.smelting_facility)
  ELSE IF facility = "Chemical Facility"
    THEN MultiplierVariant(mults.chemical_facility, ui.chemical_facility)
  ELSE IF facility = "Research Facility" THEN Ok(F(ui.matrix_lab_height))
  ELSE IF facility = "Refining Facility" THEN Ok(F(1))
  ELSE Raised("ValueError")

building_for_facility(ui, facility) ==
  IF facility = "Assembler" THEN Ok(ui.assembler)
  ELSE IF facility = "Smelting Facility" THEN Ok(ui.smelting_facility)
  ELSE IF facility = "Chemical Facility" THEN Ok(ui.chemical_facility)
  ELSE IF facility = "Research Facility" THEN Ok("Matrix Lab")
  ELSE IF facility = "Refining Facility" THEN Ok("Oil Refinery")
  ELSE Raised("ValueError")

\* a variant that keeps the amount of the left operand
MaterialKeepLeft(mat0, other0) ==
  The({ IF mat.name # other.name THEN Raised("ValueError") ELSE Ok(mat) :
        mat \in {mat0}, other \in {other0} })

MaterialAdd(mat0, other0) ==
  The({ IF mat.name # other.name THEN Raised("ValueError")
        ELSE Ok(MaterialWithAmount(mat.name, FAdd(mat.amount, other.amount))) :
        mat \in {mat0}, other \in {other0} })

(***************************************************************************)
(* build_recipe_map: the dict comprehension visits the recipes in catalog  *)
(* order and, within a recipe, its outputs in order; a key bound again is  *)
(* rebound.                                                                *)
(***************************************************************************)
\* a variant that keeps the first binding of a key
DictPutFirst(d, k, v) == d @@ (k :> v)

\* d[k] = v on a dict held as a function
DictPut(d, k, v) == (k :> v) @@ d

RECURSIVE RecipeOutputsR(_, _, _)
RecipeOutputsR(d0, recipe, j0) ==
  The({ IF j > Len(recipe.output) THEN d
        ELSE RecipeOutputsR(
               IF recipe.enabled THEN DictPut(d, recipe.output[j].name, recipe)
               ELSE d,
               recipe, j + 1) :
        d \in {d0}, j \in {j0} })

RECURSIVE BuildRecipeMapR(_, _, _)
BuildRecipeMapR(d0, recipes0, i0) ==
  The({ IF i > Len(recipes0) THEN d
        ELSE BuildRecipeMapR(RecipeOutputsR(d, recipes0[i], 1), recipes0,
                             i + 1) :
        d \in {d0}, i \in {i0} })

build_recipe_map(recipes) == BuildRecipeMapR(<<>>, recipes, 1)

(***************************************************************************)
(* merge_requirements.  The state of the loop is the heap, the dict        *)
(* merged_requirements, and the exception raised, if any ("" for none).    *)
(* A key not seen before is bound to the incoming object itself; a key     *)
(* seen before has the object it is bound to updated in place.             *)
(***************************************************************************)
RECURSIVE KeyIndexR(_, _, _)
KeyIndexR(m, k, i0) ==
  The({ IF i > Len(m) THEN 0
        ELSE IF m[i].k = k THEN i ELSE KeyIndexR(m, k, i + 1) :
        i \in {i0} })

\* the position of key k in dict m, 0 when k is not in m
KeyIndex(m0, k0) == The({ KeyIndexR(m, k, 1) : m \in {m0}, k \in {k0} })

Keys(m) == {m[i].k : i \in 1..Len(m)}

RECURSIVE AddInputsR(_, _, _, _)

AddInputsNext(cur, inc, i, acc, sum0) ==
  The({ IF IsRaised(sum) THEN sum
        ELSE AddInputsR(cur, inc, i + 1, Append(acc, sum.val)) :
        sum \in {sum0} })

AddInputsR(cur, inc, i0, acc0) ==
  The({ IF i > Len(inc) THEN Ok(acc)
        ELSE IF i > Len(cur) THEN Raised("IndexError")
        ELSE AddInputsNext(cur, inc, i, acc, MaterialAdd(cur[i], inc[i])) :
        i \in {i0}, acc \in {acc0} })

\* [cur[i] + inc[i] for i in range(len(inc))]
AddInputs(cur0, inc0) ==
  The({ AddInputsR(cur, inc, 1, <<>>) : cur \in {cur0}, inc \in {inc0} })

\* the first binding of a key: merged_requirements[material] = requirement_for_material
MergeInsert(st, k, iref) ==
  [heap |-> st.heap, merged |-> Append(st.merged, [k |-> k, ref |-> iref]),
   err |-> st.err]

\* a variant that keeps the incoming rate and building amount
MergeKeepIncoming(cur0, inc0) ==
  The({ RequirementForMaterial(inc.rate, inc.building, cur.input) :
        cur \in {cur0}, inc \in {inc0} })

\* lines 217-223 on the object cur, reading the object inc: each statement
\* reads and writes one field, so the result is the same when cur is inc
MergeRateBuilding(cur0, inc0) ==
  The({ RequirementForMaterial(
          FAdd(cur.rate, inc.rate),
          MaterialWithAmount(inc.building.name,
                             FAdd(cur.building.amount, inc.building.amount)),
          cur.input) :
        cur \in {cur0}, inc \in {inc0} })

\* lines 224-228: c is the object after lines 217-223, sum the new list or
\* the exception of the list comprehension, which leaves c.input as it was
MergeInput(st, ref, c0, sum0) ==
  The({ IF IsRaised(sum)
        THEN [heap |-> [st.heap EXCEPT ![ref] = c], merged |-> st.merged,
              err |-> sum.err]
        ELSE [heap |-> [st.heap EXCEPT ![ref] =
                          RequirementForMaterial(c.rate, c.building, sum.val)],
              merged |-> st.merged, err |-> st.err] :
        c \in {c0}, sum \in {sum0} })

MergeUpdate(st, ref, iref) ==
  MergeInput(st, ref, MergeRateBuilding(st.heap[ref], st.heap[iref]),
             AddInputs(st.heap[ref].input, st.heap[iref].input))

MergeFound(st, k, iref, j) ==
  IF j = 0 THEN MergeInsert(st, k, iref)
  ELSE MergeUpdate(st, st.merged[j].ref, iref)

MergeEntry(st0, k, iref) ==
  The({ IF st.err # "" THEN st
        ELSE MergeFound(st, k, iref, KeyIndex(st.merged, k)) :
        st \in {st0} })

RECURSIVE MergeMapR(_, _, _)
MergeMapR(st0, requirement, i0) ==
  The({ IF i > Len(requirement) THEN st
        ELSE MergeMapR(MergeEntry(st, requirement[i].k, requirement[i].ref),
                       requirement, i + 1) :
        st \in {st0}, i \in {i0} })

RECURSIVE MergeAllR(_, _, _)
MergeAllR(st0, requirements, n0) ==
  The({ IF n > Len(requirements) THEN st
        ELSE MergeAllR(MergeMapR(st, requirements[n], 1), requirements, n + 1) :
        st \in {st0}, n \in {n0} })

\* [heap, merged, err]: the heap after the call, the dict returned, the exception
merge_requirements(h0, requirements0) ==
  The({ MergeAllR([heap |-> h, merged |-> <<>>, err |-> ""], requirements, 1) :
        h \in {h0}, requirements \in {requirements0} })

\* the value of a dict: its keys in order, each with the object it is bound to
Deref(h, m) == [i \in 1..Len(m) |-> [k |-> m[i].k, v |-> h[m[i].ref]]]

\* dict equality: the same keys bound to equal values, whatever the order
DictEq(a, b) ==
  /\ Keys(a) = Keys(b)
  /\ \A i \in 1..Len(a) : a[i].v = b[KeyIndex(b, a[i].k)].v

(***************************************************************************)
(* State.  recipes: the catalog; recipe_map: the recipe index; user_input, *)
(* multipliers: the facility choice; heap: the RequirementForMaterial      *)
(* objects allocated so far; stack: the active calls of get_requirements,  *)
(* the innermost last; result: what the top-level call returned or raised. *)
(* calls and returns are history: every call made and every call returned. *)
(* margs and mout are the argument and the outcome of a direct call of     *)
(* merge_requirements.  pc tells which part of the program is run:         *)
(* "catalog" then "indexed" (build_recipe_map), "resolve"                  *)
(* (get_requirements), "merge" then "merged" then "changed"                *)
(* (merge_requirements called on its own).                                 *)
(***************************************************************************)
VARIABLES pc, recipes, recipe_map, user_input, multipliers, heap, stack,
          result, calls, returns, margs, mout

vars == <<pc, recipes, recipe_map, user_input, multipliers, heap, stack,
          result, calls, returns, margs, mout>>

NoResult == [kind |-> "none", err |-> "", map |-> <<>>]
NoMerge == [kind |-> "none", err |-> "", map |-> <<>>, pre |-> <<>>]

(***************************************************************************)
(* get_requirements, one frame of the stack per active call.  A frame is   *)
(* at "entry" (line 241) or in the loop over recipe.input ("inputs", lines *)
(* 258-267) with the sub-results collected so far in requirements.         *)
(***************************************************************************)
RECURSIVE FindOutputR(_, _, _)
FindOutputR(output, target_material, j0) ==
  The({ IF j > Len(output) THEN Raised("ValueError")
        ELSE IF output[j].name = target_material THEN Ok(output[j])
        ELSE FindOutputR(output, target_material, j + 1) :
        j \in {j0} })

\* a variant that falls back on the first output of the recipe
FindOutputOrFirst(recipe, target_material) ==
  IF IsRaised(FindOutputR(recipe.output, target_material, 1))
       /\ recipe.output # <<>>
  THEN Ok(recipe.output[1])
  ELSE FindOutputR(recipe.output, target_material, 1)

find_recipe_output_material(recipe, target_material) ==
  FindOutputR(recipe.output, target_material, 1)

\* a variant that multiplies before it divides
IngredientRateMulFirst(target_rate, batch, amount) ==
  FDiv(FMul(target_rate, amount), batch)

\* line 261: target_rate / output_recipe_material.amount * material.amount
IngredientRate(target_rate, batch, amount) ==
  FMul(FDiv(target_rate, batch), amount)

\* lines 280-283: material * target_rate / output_recipe_material.amount
InputBreakdown(recipe, target_rate, batch) ==
  [j \in 1..Len(recipe.input) |->
     MaterialTrueDiv(MaterialMul(recipe.input[j], target_rate), batch)]

\* a variant that counts no building where the multiplier is zero
BuildingAmountZeroSafe(name0, mult0, recipe, target_rate, batch0) ==
  The({ IF IsRaised(name) THEN name
        ELSE IF DIsZero(batch) THEN Raised("ZeroDivisionError")
        ELSE IF IsRaised(mult) THEN mult
        ELSE IF DIsZero(mult.val) THEN Ok(MaterialWithAmount(name.val, Zero))
        ELSE Ok(MaterialTrueDiv(
                  MaterialTrueDiv(
                    MaterialMul(MaterialWithAmount(name.val, target_rate),
                                recipe.duration),
                    batch),
                  mult.val)) :
        name \in {name0}, mult \in {mult0}, batch \in {batch0} })

\* lines 273-279, evaluated left to right; name and mult are the outcomes of
\* building_for_facility and multiplier_for_facility
BuildingAmountOf(name0, mult0, recipe, target_rate, batch0) ==
  The({ IF IsRaised(name) THEN name
        ELSE IF DIsZero(batch) THEN Raised("ZeroDivisionError")
        ELSE IF IsRaised(mult) THEN mult
        ELSE IF DIsZero(mult.val) THEN Raised("ZeroDivisionError")
        ELSE Ok(MaterialTrueDiv(
                  MaterialTrueDiv(
                    MaterialMul(MaterialWithAmount(name.val, target_rate),
                                recipe.duration),
                    batch),
                  mult.val)) :
        name \in {name0}, mult \in {mult0}, batch \in {batch0} })

BuildingAmount(ui, mults, recipe, target_rate, batch) ==
  BuildingAmountOf(building_for_facility(ui, recipe.made_in),
                   multiplier_for_facility(ui, mults, recipe.made_in),
                   recipe, target_rate, batch)

\* output_recipe_material.amount, once find_recipe_output_material has returned
BatchAmount(recipe, target_material) ==
  find_recipe_output_material(recipe, target_material).val.amount

Materials == {"Motor", "Gear", "Coil", "Plate", "Ore"}

\* The interpreter's recursion limit, scaled to the catalog: a chain of
\* calls longer than the number of materials repeats a material, so it
\* follows a cycle of the index and would go on to any limit.
RecursionLimit == Cardinality(Materials) + 1

Top == stack[Len(stack)]

Frame(id, material, rate) ==
  [id |-> id, material |-> material, rate |-> rate, pc |-> "entry",
   requirements |-> <<>>]

Raise(e, h) ==
  /\ heap' = h
  /\ stack' = <<>>
  /\ result' = [kind |-> "error", err |-> e, map |-> <<>>]
  /\ UNCHANGED <<calls, returns>>

Return(h0, m0, consulted) ==
  \E h \in {h0}, m \in {m0} :
    /\ heap' = h
    /\ returns' = Append(returns,
         [id |-> Top.id, material |-> Top.material, rate |-> Top.rate,
          map |-> Deref(h, m), consulted |-> consulted])
    /\ IF Len(stack) = 1
       THEN /\ stack' = <<>>
            /\ result' = [kind |-> "ok", err |-> "", map |-> Deref(h, m)]
       ELSE /\ stack' = [SubSeq(stack, 1, Len(stack) - 1) EXCEPT
                           ![Len(stack) - 1].requirements = Append(@, m)]
            /\ UNCHANGED result
    /\ UNCHANGED calls

\* lines 301-307: the top-level call
Main ==
  /\ pc = "resolve"
  /\ stack = <<>> /\ result.kind = "none" /\ calls = <<>>
  /\ stack' = <<Frame(1, user_input.material, user_input.production_rate)>>
  /\ calls' = <<[id |-> 1, parent |-> 0, pos |-> 0,
                 material |-> user_input.material,
                 rate |-> user_input.production_rate]>>
  /\ UNCHANGED <<pc, recipes, recipe_map, user_input, multipliers, heap,
                 result, returns, margs, mout>>

\* lines 241-246
BaseCase ==
  /\ stack # <<>> /\ Top.pc = "entry"
  /\ Top.material \notin DOMAIN recipe_map
  /\ Return(Append(heap, RequirementForMaterial(Top.rate, EmptyMaterial, <<>>)),
            <<[k |-> Top.material, ref |-> Len(heap) + 1]>>, FALSE)
  /\ UNCHANGED <<pc, recipes, recipe_map, user_input, multipliers, margs,
                 mout>>

LookupFound(out0) ==
  \E out \in {out0} :
    IF IsRaised(out) THEN Raise(out.err, heap)
    ELSE /\ stack' = [stack EXCEPT ![Len(stack)].pc = "inputs"]
         /\ UNCHANGED <<heap, result, calls, returns>>

\* lines 248-256
Lookup ==
  /\ stack # <<>> /\ Top.pc = "entry"
  /\ Top.material \in DOMAIN recipe_map
  /\ LookupFound(find_recipe_output_material(recipe_map[Top.material],
                                             Top.material))
  /\ UNCHANGED <<pc, recipes, recipe_map, user_input, multipliers, margs,
                 mout>>

RecurseCall(id, pos, material, rate0) ==
  \E rate \in {rate0} :
    /\ stack' = Append(stack, Frame(id, material, rate))
    /\ calls' = Append(calls, [id |-> id, parent |-> Top.id, pos |-> pos,
                               material |-> material, rate |-> rate])
    /\ UNCHANGED <<heap, result, returns>>

\* a variant that calls get_requirements on the target again
RecurseIntoTarget(batch0, pos, material) ==
  \E batch \in {batch0} :
    IF DIsZero(batch) THEN Raise("ZeroDivisionError", heap)
    ELSE IF Len(stack) >= RecursionLimit THEN Raise("RecursionError", heap)
    ELSE RecurseCall(Len(calls) + 1, pos, Top.material,
                     IngredientRate(Top.rate, batch, material.amount))

RecurseInto(batch0, pos, material) ==
  \E batch \in {batch0} :
    IF DIsZero(batch) THEN Raise("ZeroDivisionError", heap)
    ELSE IF Len(stack) >= RecursionLimit THEN Raise("RecursionError", heap)
    ELSE RecurseCall(Len(calls) + 1, pos, material.name,
                     IngredientRate(Top.rate, batch, material.amount))

\* lines 258-267: the call for the next entry of recipe.input
Recurse ==
  /\ stack # <<>> /\ Top.pc = "inputs"
  /\ Len(Top.requirements) < Len(recipe_map[Top.material].input)
  /\ RecurseInto(BatchAmount(recipe_map[Top.material], Top.material),
                 Len(Top.requirements) + 1,
                 recipe_map[Top.material].input[Len(Top.requirements) + 1])
  /\ UNCHANGED <<pc, recipes, recipe_map, user_input, multipliers, margs,
                 mout>>

ProduceMerged(st0) ==
  \E st \in {st0} :
    IF st.err # "" THEN Raise(st.err, st.heap)
    ELSE Return(st.heap, st.merged, TRUE)

\* lines 269-288 once the building is computed: the entry of the target
\* itself is appended, the list is merged, the merged dict is returned
ProduceEntry(recipe, batch, building0) ==
  \E building \in {building0} :
    IF IsRaised(building) THEN Raise(building.err, heap)
    ELSE ProduceMerged(
           merge_requirements(
             Append(heap, RequirementForMaterial(Top.rate, building.val,
                            InputBreakdown(recipe, Top.rate, batch))),
             Append(Top.requirements,
                    <<[k |-> Top.material, ref |-> Len(heap) + 1]>>)))

ProduceWith(recipe, batch0) ==
  \E batch \in {batch0} :
    ProduceEntry(recipe, batch,
                 BuildingAmount(user_input, multipliers, recipe, Top.rate,
                                batch))

\* lines 269-288: the entry of the target itself, the merge, the return
Produce ==
  /\ stack # <<>> /\ Top.pc = "inputs"
  /\ Len(Top.requirements) = Len(recipe_map[Top.material].input)
  /\ ProduceWith(recipe_map[Top.material],
                 BatchAmount(recipe_map[Top.material], Top.material))
  /\ UNCHANGED <<pc, recipes, recipe_map, user_input, multipliers, margs,
                 mout>>

(***************************************************************************)
(* The catalogs and facility choices the resolver is run on.  A shape      *)
(* gives the index as material -> names of the inputs and outputs of its   *)
(* recipe; the numbers come from a parameter record.  One recipe of the    *)
(* shape and the facility choice take their numbers from a record that     *)
(* differs from BaseParams in at most one field (two for the lab height of *)
(* a research recipe); the other recipes take theirs from BaseParams.  The *)
(* rate and the lab height are positive, as get_user_input leaves them.    *)
(***************************************************************************)
MaxAmount == 3
MaxDuration == 2
MaxLabHeight == 3
MaxRate == 2

Rcp(ins, outs) == [ins |-> ins, outs |-> outs]

Shapes ==
  { [target |-> "Ore", index |-> <<>>],
    [target |-> "Gear", index |-> "Gear" :> Rcp(<<"Plate">>, <<"Gear">>)],
    [target |-> "Motor",
     index |-> "Motor" :> Rcp(<<"Gear", "Plate">>, <<"Motor">>)
            @@ "Gear" :> Rcp(<<"Plate">>, <<"Gear">>)],
    [target |-> "Motor",
     index |-> "Motor" :> Rcp(<<"Gear", "Coil">>, <<"Motor">>)
            @@ "Gear" :> Rcp(<<"Plate">>, <<"Gear">>)
            @@ "Coil" :> Rcp(<<"Plate">>, <<"Coil">>)
            @@ "Plate" :> Rcp(<<"Ore">>, <<"Plate">>)],
    [target |-> "Motor",
     index |-> "Motor" :> Rcp(<<"Plate", "Gear">>, <<"Motor">>)
            @@ "Gear" :> Rcp(<<"Plate", "Coil">>, <<"Gear">>)
            @@ "Coil" :> Rcp(<<"Plate">>, <<"Coil">>)],
    [target |-> "Gear",
     index |-> "Gear" :> Rcp(<<"Plate", "Plate">>, <<"Gear">>)],
    [target |-> "Gear", index |-> "Gear" :> Rcp(<<"Gear">>, <<"Gear">>)],
    [target |-> "Motor",
     index |-> "Motor" :> Rcp(<<"Gear">>, <<"Motor">>)
            @@ "Gear" :> Rcp(<<"Motor">>, <<"Gear">>)],
    [target |-> "Motor",
     index |-> "Motor" :> Rcp(<<"Plate", "Gear">>, <<"Motor">>)
            @@ "Gear" :> Rcp(<<"Motor">>, <<"Gear">>)],
    [target |-> "Motor",
     index |-> "Motor" :> Rcp(<<"Plate", "Gear">>, <<"Motor">>)
            @@ "Gear" :> Rcp(<<"Plate">>, <<"Coil">>)],
    [target |-> "Plate",
     index |-> "Plate" :> Rcp(<<"Ore">>, <<"Plate">>)
            @@ "Ore" :> Rcp(<<>>, <<"Ore">>)],
    [target |-> "Motor",
     index |-> "Motor" :> Rcp(<<"Gear", "Coil">>, <<"Motor">>)
            @@ "Gear" :> Rcp(<<"Plate">>, <<"Gear", "Coil">>)
            @@ "Coil" :> Rcp(<<"Plate">>, <<"Gear", "Coil">>)] }

Facilities ==
  {"Assembler", "Smelting Facility", "Chemical Facility", "Research Facility",
   "Refining Facility", "Particle Collider"}

Assemblers ==
  {"Assembling Machine Mk.1", "Assembling Machine Mk.2",
   "Assembling Machine Mk.3"}

\* The multiplier values are given in quarters: 3 stands for 0.75.
Quarters(n) == FDiv(F(n), F(4))

BaseParams ==
  [a |-> 3, b |-> 1, d |-> 1, f |-> "Assembler", m |-> 3, h |-> 3, r |-> 1,
   asm |-> "Assembling Machine Mk.1"]

\* the parameter records that differ from BaseParams in at most one field,
\* and those of a research recipe under each lab height
OneDeviation ==
  {[BaseParams EXCEPT !.a = v] : v \in 1..MaxAmount}
    \cup {[BaseParams EXCEPT !.b = v] : v \in {-1, 0, 1, 10}}
    \cup {[BaseParams EXCEPT !.d = v] : v \in -1..MaxDuration}
    \cup {[BaseParams EXCEPT !.f = v] : v \in Facilities}
    \cup {[BaseParams EXCEPT !.m = v] : v \in {-4, 0, 3, 4, 8}}
    \cup {[BaseParams EXCEPT !.f = "Research Facility", !.h = v] :
            v \in 1..MaxLabHeight}
    \cup {[BaseParams EXCEPT !.r = v] : v \in 1..MaxRate}
    \cup {[BaseParams EXCEPT !.asm = v] : v \in Assemblers}

MkRecipe(sh, p) ==
  [input |-> [j \in 1..Len(sh.ins) |-> MaterialWithAmount(sh.ins[j], F(p.a))],
   output |-> [j \in 1..Len(sh.outs) |-> MaterialWithAmount(sh.outs[j], F(p.b))],
   made_in |-> p.f, duration |-> F(p.d), enabled |-> TRUE]

MkUserInput(target, p) ==
  [material |-> target, production_rate |-> F(p.r), assembler |-> p.asm,
   smelting_facility |-> "Smelter", chemical_facility |-> "Chemical Plant",
   matrix_lab_height |-> p.h]

MkMultipliers(p) ==
  [assembler |-> "Assembling Machine Mk.1" :> Quarters(p.m)
              @@ "Assembling Machine Mk.2" :> F(1),
   smelting_facility |-> "Smelter" :> Quarters(p.m + 2),
   chemical_facility |-> "Chemical Plant" :> Quarters(p.m + 3)]

Init ==
  \E sh \in Shapes, p \in OneDeviation :
    \E x \in DOMAIN sh.index \cup {sh.target} :
      /\ pc = "resolve"
      /\ recipes = <<>>
      /\ recipe_map = [k \in DOMAIN sh.index |->
                         MkRecipe(sh.index[k], IF k = x THEN p ELSE BaseParams)]
      /\ user_input = MkUserInput(sh.target, p)
      /\ multipliers = MkMultipliers(p)
      /\ heap = <<>> /\ stack = <<>> /\ result = NoResult
      /\ calls = <<>> /\ returns = <<>>
      /\ margs = <<>> /\ mout = NoMerge

Next == Main \/ BaseCase \/ Lookup \/ Recurse \/ Produce

Spec == Init /\ [][Next]_vars

\* The interpreter runs the call to its end: a step that can be taken is taken.
SpecLive == Spec /\ WF_vars(Next)

(***************************************************************************)
(* build_recipe_map on its own (line 299), over the catalogs of at most    *)
(* MaxRecipes recipes with at most two outputs each.  The recipe at        *)
(* position i of a catalog has duration i, which tells apart two recipes   *)
(* with the same outputs.                                                  *)
(***************************************************************************)
MaxRecipes == 3

IndexMaterials == {"Gear", "Coil"}

OutputLists ==
  {<<>>} \cup {<<x>> : x \in IndexMaterials}
         \cup {p \in IndexMaterials \X IndexMaterials : p[1] # p[2]}

CatalogDurations == [i \in 1..MaxRecipes |-> F(i)]

CatalogOutputs ==
  [outs \in OutputLists |->
     [j \in 1..Len(outs) |-> MaterialWithAmount(outs[j], F(1))]]

CatalogRecipe(i, outs, enabled) ==
  [input |-> <<>>, output |-> CatalogOutputs[outs], made_in |-> "Assembler",
   duration |-> CatalogDurations[i], enabled |-> enabled]

InitIndex ==
  \E n \in 0..MaxRecipes :
    \E outs \in [1..n -> OutputLists], en \in [1..n -> BOOLEAN] :
      /\ pc = "catalog"
      /\ recipes = [i \in 1..n |-> CatalogRecipe(i, outs[i], en[i])]
      /\ recipe_map = <<>>
      /\ user_input = <<>> /\ multipliers = <<>>
      /\ heap = <<>> /\ stack = <<>> /\ result = NoResult
      /\ calls = <<>> /\ returns = <<>>
      /\ margs = <<>> /\ mout = NoMerge

BuildRecipeMap ==
  /\ pc = "catalog"
  /\ recipe_map' = build_recipe_map(recipes)
  /\ pc' = "indexed"
  /\ UNCHANGED <<recipes, user_input, multipliers, heap, stack, result, calls,
                 returns, margs, mout>>

NextIndex == BuildRecipeMap

SpecIndex == InitIndex /\ [][NextIndex]_vars

(***************************************************************************)
(* merge_requirements called on its own on a list of two dicts X and Y.    *)
(* Both may hold "Gear"; X or Y may also hold "Plate".  The objects of X   *)
(* and Y are distinct objects of the heap.                                 *)
(***************************************************************************)
MaxMergeRate == 2

MergeInputs(r) ==
  {<<>>, <<MaterialWithAmount("Plate", F(r))>>,
   <<MaterialWithAmount("Ore", F(r))>>}

\* the RequirementForMaterial objects an argument may hold for "Gear"
MergeObjects ==
  UNION { { RequirementForMaterial(F(r), MaterialWithAmount(b, F(r)), i) :
              b \in {"Smelter", "Assembling Machine Mk.1"},
              i \in MergeInputs(r) } :
          r \in 1..MaxMergeRate }

PlateObject == RequirementForMaterial(F(3), EmptyMaterial, <<>>)

\* the dicts built from "Gear" bound to address g and "Plate" to address p
MergeDicts(g, p) ==
  { <<[k |-> "Gear", ref |-> g]>>,
    <<[k |-> "Gear", ref |-> g], [k |-> "Plate", ref |-> p]>>,
    <<[k |-> "Plate", ref |-> p], [k |-> "Gear", ref |-> g]>>,
    <<[k |-> "Plate", ref |-> p]>> }

InitMerge ==
  \E x \in MergeObjects, y \in MergeObjects :
    \E mx \in MergeDicts(1, 2), my \in MergeDicts(3, 4) :
      /\ pc = "merge"
      /\ heap = <<x, PlateObject, y, PlateObject>>
      /\ margs = <<mx, my>>
      /\ mout = NoMerge
      /\ recipes = <<>> /\ recipe_map = <<>>
      /\ user_input = <<>> /\ multipliers = <<>>
      /\ stack = <<>> /\ result = NoResult
      /\ calls = <<>> /\ returns = <<>>

MergeOutcome(st, pre) ==
  [kind |-> IF st.err = "" THEN "ok" ELSE "error", err |-> st.err,
   map |-> IF st.err = "" THEN st.merged ELSE <<>>, pre |-> pre]

\* merged = merge_requirements([X, Y])
Merge ==
  /\ pc = "merge"
  /\ \E st \in {merge_requirements(heap, margs)} :
       /\ heap' = st.heap
       /\ mout' = MergeOutcome(st, heap)
  /\ pc' = "merged"
  /\ UNCHANGED <<recipes, recipe_map, user_input, multipliers, stack, result,
                 calls, returns, margs>>

\* a later change by the caller to an entry of the dict returned:
\* merged[k].rate = 0
ChangeReturned ==
  /\ pc = "merged" /\ mout.kind = "ok"
  /\ \E i \in 1..Len(mout.map) :
       heap' = [heap EXCEPT ![mout.map[i].ref].rate = Zero]
  /\ pc' = "changed"
  /\ UNCHANGED <<recipes, recipe_map, user_input, multipliers, stack, result,
                 calls, returns, margs, mout>>

NextMerge == Merge \/ ChangeReturned

SpecMerge == InitMerge /\ [][NextMerge]_vars

(***************************************************************************)
(* What the properties below speak of: the graph induced by the recipe     *)
(* index (material -> names of the inputs of its recipe), the quantities   *)
(* of a recipe, and closeness up to rounding.                              *)
(***************************************************************************)
Target == user_input.material

IsLeaf(k) == k \notin DOMAIN recipe_map

InputNames(k) ==
  IF IsLeaf(k) THEN {}
  ELSE {recipe_map[k].input[j].name : j \in 1..Len(recipe_map[k].input)}

Successors(S) == S \cup UNION {InputNames(k) : k \in S}

RECURSIVE ReachR(_)
ReachR(S) == IF Successors(S) = S THEN S ELSE ReachR(Successors(S))

\* T and every transitive ingredient of T
Reach(T) == ReachR({T})

OnCycle(k) == k \in ReachR(InputNames(k))

ReachesCycle(T) == \E k \in Reach(T) : OnCycle(k)

SetMax(S) == CHOOSE x \in S : \A y \in S : y <= x

\* the number of edges of the longest path from k, on an acyclic graph
RECURSIVE LongestPath(_)
LongestPath(k) ==
  IF InputNames(k) = {} THEN 0
  ELSE 1 + SetMax({LongestPath(x) : x \in InputNames(k)})

\* the recipes an expansion of the target uses
Used == {k \in Reach(Target) : ~IsLeaf(k)}

Malformed(k) ==
  \A j \in 1..Len(recipe_map[k].output) : recipe_map[k].output[j].name # k

FirstOutputNamed(k) ==
  CHOOSE j \in 1..Len(recipe_map[k].output) :
    /\ recipe_map[k].output[j].name = k
    /\ \A i \in 1..(j - 1) : recipe_map[k].output[i].name # k

\* the batch amount of the recipe of k, which is not malformed
Batch(k) == recipe_map[k].output[FirstOutputNamed(k)].amount

FacilityKnown(f) ==
  \/ f = "Assembler" /\ user_input.assembler \in DOMAIN multipliers.assembler
  \/ f = "Smelting Facility"
       /\ user_input.smelting_facility \in DOMAIN multipliers.smelting_facility
  \/ f = "Chemical Facility"
       /\ user_input.chemical_facility \in DOMAIN multipliers.chemical_facility
  \/ f = "Research Facility"
  \/ f = "Refining Facility"

ExpectedMultiplier(f) ==
  CASE f = "Assembler" -> multipliers.assembler[user_input.assembler]
    [] f = "Smelting Facility" ->
         multipliers.smelting_facility[user_input.smelting_facility]
    [] f = "Chemical Facility" ->
         multipliers.chemical_facility[user_input.chemical_facility]
    [] f = "Research Facility" -> F(user_input.matrix_lab_height)
    [] f = "Refining Facility" -> F(1)

ExpectedBuildingName(f) ==
  CASE f = "Assembler" -> user_input.assembler
    [] f = "Smelting Facility" -> user_input.smelting_facility
    [] f = "Chemical Facility" -> user_input.chemical_facility
    [] f = "Research Facility" -> "Matrix Lab"
    [] f = "Refining Facility" -> "Oil Refinery"

\* |x - y| <= 2^-50 * scale, in exact arithmetic
Within(x, y, scale) == DLeq(DAbs(DSub(x, y)), DScale(DAbs(scale), -50))

Close(x, y) == Within(x, y, y)

\* the entry of key k in the value of a dict
EntryOf(map, k) == map[KeyIndex(map, k)].v

NonLeafReturns == {i \in 1..Len(returns) : ~IsLeaf(returns[i].material)}

ChildCalls(id) == {c \in 1..Len(calls) : calls[c].parent = id}

ChildAt(id, j) == CHOOSE c \in ChildCalls(id) : calls[c].pos = j

CallsFor(k) == {c \in 1..Len(calls) : calls[c].material = k}

ReturnOf(c) == returns[CHOOSE i \in 1..Len(returns) : returns[i].id = c]

\* the building count the call c computed for its own material
OwnCount(c) == EntryOf(ReturnOf(c).map, calls[c].material).building.amount

RECURSIVE SumRates(_)
SumRates(S) ==
  IF S = {} THEN Zero
  ELSE DAdd(calls[SetMax(S)].rate, SumRates(S \ {SetMax(S)}))

RECURSIVE SumAbsRates(_)
SumAbsRates(S) ==
  IF S = {} THEN Zero
  ELSE DAdd(DAbs(calls[SetMax(S)].rate), SumAbsRates(S \ {SetMax(S)}))

RECURSIVE SumCounts(_)
SumCounts(S) ==
  IF S = {} THEN Zero ELSE DAdd(OwnCount(SetMax(S)), SumCounts(S \ {SetMax(S)}))

RECURSIVE SumAbsCounts(_)
SumAbsCounts(S) ==
  IF S = {} THEN Zero
  ELSE DAdd(DAbs(OwnCount(SetMax(S))), SumAbsCounts(S \ {SetMax(S)}))

(***************************************************************************)
(* C1                                                                      *)
(***************************************************************************)
TwoPathTotals(e, a, b) ==
  /\ e.rate = FAdd(calls[a].rate, calls[b].rate)
  /\ e.building.amount = FAdd(OwnCount(a), OwnCount(b))

EntryTotals(k, e) ==
  /\ Within(e.rate, SumRates(CallsFor(k)), SumAbsRates(CallsFor(k)))
  /\ Within(e.building.amount, SumCounts(CallsFor(k)),
            SumAbsCounts(CallsFor(k)))
  /\ Cardinality(CallsFor(k)) = 1 =>
       /\ e.rate = calls[SetMax(CallsFor(k))].rate
       /\ e.building.amount = OwnCount(SetMax(CallsFor(k)))
  /\ Cardinality(CallsFor(k)) = 2 =>
       TwoPathTotals(e, SetMax(CallsFor(k)),
                     SetMax(CallsFor(k) \ {SetMax(CallsFor(k))}))

\* C1: the map returned by the top-level call has exactly one entry for every
\* material reachable from the target and no other entry; the rate and the
\* building amount of an entry are, up to rounding, the sums over the calls
\* made for its material of the rate demanded and of the building count each
\* call computed; a material demanded by two calls at rates a and b has rate
\* a + b and the float sum of the two building counts.
RequirementMapTotals ==
  (pc = "resolve" /\ result.kind = "ok") =>
    /\ Keys(result.map) = Reach(Target)
    /\ \A i, j \in 1..Len(result.map) :
         i # j => result.map[i].k # result.map[j].k
    /\ \A i \in 1..Len(result.map) :
         EntryTotals(result.map[i].k, result.map[i].v)

\* a crafted material demanded along two paths at different rates
TwoPathsMerged ==
  /\ pc = "resolve" /\ result.kind = "ok"
  /\ \E k \in Used :
       /\ Cardinality(CallsFor(k)) = 2
       /\ \E a, b \in CallsFor(k) : calls[a].rate # calls[b].rate

(***************************************************************************)
(* C2                                                                      *)
(***************************************************************************)
BuildingAsSpecified(k, r, building) ==
  /\ building.name = ExpectedBuildingName(recipe_map[k].made_in)
  /\ Close(DMul(DMul(building.amount, Batch(k)),
                ExpectedMultiplier(recipe_map[k].made_in)),
           DMul(r, recipe_map[k].duration))

\* C2: the entry a call creates for a material with a recipe names the building
\* chosen for the facility class of the recipe, and its building amount is
\* r*d/(b*m) up to rounding: amount*b*m is within 2^-50 of r*d, relatively.
BuildingCount ==
  pc = "resolve" =>
    \A i \in NonLeafReturns :
      BuildingAsSpecified(returns[i].material, returns[i].rate,
                          EntryOf(returns[i].map, returns[i].material).building)

\* a research recipe resolved below the target with a lab of height 2
ResearchResolved ==
  /\ pc = "resolve" /\ result.kind = "ok"
  /\ user_input.matrix_lab_height = 2
  /\ \E i \in NonLeafReturns :
       /\ returns[i].id > 1
       /\ recipe_map[returns[i].material].made_in = "Research Facility"

(***************************************************************************)
(* C3                                                                      *)
(***************************************************************************)
CallAsSpecified(c, p) ==
  /\ c.pos \in 1..Len(recipe_map[p.material].input)
  /\ c.material = recipe_map[p.material].input[c.pos].name
  /\ c.rate = FMul(FDiv(p.rate, Batch(p.material)),
                   recipe_map[p.material].input[c.pos].amount)

OneCallPerInput(ret) ==
  /\ Cardinality(ChildCalls(ret.id)) = Len(recipe_map[ret.material].input)
  /\ {calls[c].pos : c \in ChildCalls(ret.id)}
       = 1..Len(recipe_map[ret.material].input)

BreakdownAt(ret, j) == EntryOf(ret.map, ret.material).input[j]

BreakdownAsSpecified(ret) ==
  /\ Len(EntryOf(ret.map, ret.material).input)
       = Len(recipe_map[ret.material].input)
  /\ \A j \in 1..Len(recipe_map[ret.material].input) :
       /\ BreakdownAt(ret, j).name = recipe_map[ret.material].input[j].name
       /\ BreakdownAt(ret, j).amount
            = FDiv(FMul(recipe_map[ret.material].input[j].amount, ret.rate),
                   Batch(ret.material))
       /\ Close(BreakdownAt(ret, j).amount, calls[ChildAt(ret.id, j)].rate)

\* C3, corrected: the call for the ingredient at position i is made at exactly
\* the float r / batch * amount_i, one call per input entry of the recipe;
\* position i of the input breakdown holds the float amount_i * r / batch,
\* which equals the rate of the call up to rounding.
IngredientRates ==
  pc = "resolve" =>
    /\ \A c \in 1..Len(calls) :
         calls[c].parent > 0 => CallAsSpecified(calls[c], calls[calls[c].parent])
    /\ \A i \in NonLeafReturns :
         OneCallPerInput(returns[i]) /\ BreakdownAsSpecified(returns[i])

\* C3 as stated: the input breakdown holds the very rate of the call
BreakdownEqualsCallRate ==
  pc = "resolve" =>
    \A i \in NonLeafReturns :
      \A j \in 1..Len(recipe_map[returns[i].material].input) :
        BreakdownAt(returns[i], j).amount
          = calls[ChildAt(returns[i].id, j)].rate

\* a map returned in which a breakdown amount and the call rate round apart
BreakdownRoundsApart ==
  /\ pc = "resolve" /\ result.kind = "ok"
  /\ \E i \in NonLeafReturns :
       \E j \in 1..Len(recipe_map[returns[i].material].input) :
         BreakdownAt(returns[i], j).amount
           # calls[ChildAt(returns[i].id, j)].rate

(***************************************************************************)
(* C4                                                                      *)
(***************************************************************************)
LeafMap(k, r) ==
  <<[k |-> k,
     v |-> [rate |-> r, building |-> [name |-> "", amount |-> Zero],
            input |-> <<>>]]>>

\* C4: a call for a material that has no entry in the recipe index returns
\* the one-entry map {material: (rate, empty building, no input)}, makes no
\* recursive call, consults neither the facility choice nor the multipliers,
\* and raises nothing: it is about to return or has returned.
LeafReturnsItself ==
  pc = "resolve" =>
    /\ \A i \in 1..Len(returns) :
         IsLeaf(returns[i].material) =>
           /\ returns[i].map = LeafMap(returns[i].material, returns[i].rate)
           /\ ~returns[i].consulted
           /\ ChildCalls(returns[i].id) = {}
    /\ \A c \in 1..Len(calls) :
         IsLeaf(calls[c].material) =>
           \/ \E i \in 1..Len(returns) : returns[i].id = c
           \/ stack # <<>> /\ Top.id = c /\ Top.pc = "entry"

\* a raw material resolved below the target at a rate of its own
LeafResolved ==
  /\ pc = "resolve" /\ result.kind = "ok"
  /\ \E i \in 1..Len(returns) :
       /\ IsLeaf(returns[i].material)
       /\ returns[i].id > 1
       /\ returns[i].rate # user_input.production_rate

(***************************************************************************)
(* C7                                                                      *)
(***************************************************************************)
MalformedReachable == \E k \in Used : Malformed(k)

NoMapPastMalformed ==
  /\ result.kind # "ok" /\ result.map = <<>>
  /\ \A i \in 1..Len(stack) :
       (~IsLeaf(stack[i].material) /\ Malformed(stack[i].material))
         => stack[i].pc = "entry"
  /\ \A i \in NonLeafReturns : ~Malformed(returns[i].material)

\* C7: when a material of the expansion is mapped to a recipe that lists no
\* output of that name, the top-level call ends in an error and never returns
\* a map; a call for such a material goes no further than the lookup.
MalformedIsFatal ==
  (pc = "resolve" /\ MalformedReachable) =>
    ([]NoMapPastMalformed /\ <>(result.kind = "error"))

\* the lookup fails after an ingredient before it has been resolved
MalformedRaised ==
  /\ pc = "resolve" /\ result.kind = "error" /\ result.err = "ValueError"
  /\ Len(returns) > 0
  /\ ~IsLeaf(calls[Len(calls)].material)
  /\ Malformed(calls[Len(calls)].material)

(***************************************************************************)
(* C8                                                                      *)
(***************************************************************************)
ZeroBatch(k) == ~Malformed(k) /\ DIsZero(Batch(k))

ZeroMultiplier(k) ==
  /\ FacilityKnown(recipe_map[k].made_in)
  /\ DIsZero(ExpectedMultiplier(recipe_map[k].made_in))

NonPositiveQuantity(k) ==
  \/ ~Malformed(k) /\ DIsNonPositive(Batch(k))
  \/ /\ FacilityKnown(recipe_map[k].made_in)
     /\ DIsNonPositive(ExpectedMultiplier(recipe_map[k].made_in))
  \/ DIsNonPositive(recipe_map[k].duration)

\* C8, corrected: a batch amount of zero or a multiplier of zero in a recipe
\* of the expansion never produces a returned map; and the call raises only
\* for such a zero, a malformed recipe, an unknown facility or variant, or a
\* cycle: a negative batch amount or multiplier and a zero or negative
\* duration raise nothing, and only a zero raises ZeroDivisionError.
ZeroDivisorIsFatal ==
  pc = "resolve" =>
    /\ (\E k \in Used : ZeroBatch(k) \/ ZeroMultiplier(k))
         => result.kind # "ok"
    /\ result.kind = "error" =>
         \E k \in Used :
           \/ ZeroBatch(k) \/ ZeroMultiplier(k)
           \/ Malformed(k) \/ ~FacilityKnown(recipe_map[k].made_in)
           \/ OnCycle(k)
    /\ result.err = "ZeroDivisionError" =>
         \E k \in Used : ZeroBatch(k) \/ ZeroMultiplier(k)

\* C8 as stated: a zero or negative batch amount, multiplier or duration in
\* a recipe of the expansion never produces a returned map
NonPositiveIsFatal ==
  (pc = "resolve" /\ \E k \in Used : NonPositiveQuantity(k))
    => result.kind # "ok"

\* the division by a multiplier of zero raises after the ingredients resolved
ZeroMultiplierRaised ==
  /\ pc = "resolve" /\ result.kind = "error"
  /\ result.err = "ZeroDivisionError"
  /\ Len(returns) > 0
  /\ \E k \in Used : ZeroMultiplier(k) /\ ~ZeroBatch(k)

(***************************************************************************)
(* C10                                                                     *)
(***************************************************************************)
DepthWithinLongestPath ==
  (pc = "resolve" /\ ~ReachesCycle(Target))
    => Len(stack) <= LongestPath(Target) + 1

NoResultThroughCycle ==
  (pc = "resolve" /\ ReachesCycle(Target)) =>
    /\ result.kind # "ok"
    /\ \A i \in 1..Len(returns) : ~ReachesCycle(returns[i].material)

\* C10: on an acyclic index the top-level call ends, and the calls nest no
\* deeper than the longest path from the target (one frame per material of
\* the path); when the target reaches a cycle no call for a material that
\* reaches the cycle ever returns, so no map is returned.
ResolverTermination ==
  /\ (pc = "resolve" /\ ~ReachesCycle(Target)) => <>(result.kind # "none")
  /\ []DepthWithinLongestPath
  /\ []NoResultThroughCycle

\* the calls nest to the end of a path of three recipes
DeepestCall ==
  /\ pc = "resolve" /\ ~ReachesCycle(Target)
  /\ LongestPath(Target) = 3
  /\ Len(stack) = LongestPath(Target) + 1

(***************************************************************************)
(* C5                                                                      *)
(***************************************************************************)
\* merge_requirements([Y, X]) on X and Y as they were before the call
Swapped == merge_requirements(mout.pre, <<margs[2], margs[1]>>)

SwappedAgrees ==
  /\ mout.kind = "ok"
  /\ Swapped.err = ""
  /\ DictEq(Deref(heap, mout.map), Deref(Swapped.heap, Swapped.merged))

ObjectOf(h, m, k) == h[m[KeyIndex(m, k)].ref]

SameNames(a, b) ==
  Len(a) = Len(b) /\ \A j \in 1..Len(a) : a[j].name = b[j].name

\* X and Y agree, on every material both hold, on the building name and on
\* the names of the input breakdown, position by position
Compatible ==
  \A k \in Keys(margs[1]) \cap Keys(margs[2]) :
    /\ ObjectOf(mout.pre, margs[1], k).building.name
         = ObjectOf(mout.pre, margs[2], k).building.name
    /\ SameNames(ObjectOf(mout.pre, margs[1], k).input,
                 ObjectOf(mout.pre, margs[2], k).input)

\* C5, corrected: for two requirement maps X and Y whose entries and
\* buildings are all distinct objects and that agree, on every material both
\* hold, on the building name and on the names of the input breakdown,
\* position by position, merge_requirements([X, Y]) and
\* merge_requirements([Y, X]), each called on X and Y as they are before
\* either call, return equal maps.
MergeCommutesOnCompatible ==
  (pc = "merged" /\ Compatible) => SwappedAgrees

\* C5 as stated: the two orders return equal maps whatever X and Y hold
MergeCommutes == pc = "merged" => SwappedAgrees

\* both maps hold "Gear", at different rates and with an input breakdown,
\* and hold their keys in different orders
CompatibleMerged ==
  /\ pc = "merged" /\ Compatible
  /\ Len(margs[1]) = 2 /\ Len(margs[2]) = 2
  /\ margs[1][1].k = "Gear" /\ margs[2][1].k = "Plate"
  /\ ObjectOf(mout.pre, margs[1], "Gear").rate
       # ObjectOf(mout.pre, margs[2], "Gear").rate
  /\ ObjectOf(mout.pre, margs[1], "Gear").input # <<>>

(***************************************************************************)
(* C6                                                                      *)
(***************************************************************************)
Lists(i, k) ==
  \E j \in 1..Len(recipes[i].output) : recipes[i].output[j].name = k

\* the positions of the enabled recipes that list k among their outputs
Producers(k) == {i \in 1..Len(recipes) : recipes[i].enabled /\ Lists(i, k)}

\* C6: the keys of the index are exactly the output names of the enabled
\* recipes; a key is bound to an enabled recipe, the last in catalog order
\* of the enabled recipes that list it.
IndexOfEnabledOutputs ==
  pc = "indexed" =>
    /\ DOMAIN recipe_map
         = UNION { {recipes[i].output[j].name : j \in 1..Len(recipes[i].output)} :
                   i \in {x \in 1..Len(recipes) : recipes[x].enabled} }
    /\ \A k \in DOMAIN recipe_map :
         /\ recipe_map[k].enabled
         /\ recipe_map[k] = recipes[SetMax(Producers(k))]

\* two enabled recipes list a material, and a disabled one after them does
LastEnabledWins ==
  /\ pc = "indexed"
  /\ \E k \in IndexMaterials :
       /\ Cardinality(Producers(k)) = 2
       /\ \E i \in 1..Len(recipes) :
            ~recipes[i].enabled /\ Lists(i, k) /\ i > SetMax(Producers(k))

(***************************************************************************)
(* C9                                                                      *)
(***************************************************************************)
\* C9 as stated: after the call, and after a later change to an entry of
\* the map returned, every argument holds the keys and the values it held
\* before the call.
ArgumentsUnchanged ==
  pc \in {"merged", "changed"} =>
    \A i \in 1..Len(margs) :
      Deref(heap, margs[i]) = Deref(mout.pre, margs[i])
====
